---------------------------- MODULE Spec2Model ----------------------------
(***************************************************************************)
(* Model of the multi-model ensemble analysis engine of dprk_analysis:      *)
(*   utils/ensemble.py                     combine_analyses and helpers     *)
(*   scripts/image/apply_ensemble_analysis.py   EnsembleAnalyzer            *)
(*   process_missing_gemma.py              one turn of the processing loop  *)
(*   utils/gemma_analyzer.py               the parser of Gemma responses   *)
(*   process_missing_llava_parallel.py and the other parallel drivers      *)
(* Spec calls the ensemble functions on two records; SpecScore calls the   *)
(* priority scorer and the review flag on ensemble results of their own;   *)
(* SpecStore runs the two scripts that persist an ensemble on one row;     *)
(* SpecParse parses a response and stores it; SpecBatch runs the two       *)
(* scripts over a table of rows; SpecParallel runs the semaphore-guarded   *)
(* coroutines of the parallel drivers.                                     *)
(*                                                                         *)
(* Conventions.                                                            *)
(*  - A Python dict is a function whose DOMAIN is the set of keys present.  *)
(*  - A Python value is a tagged record: PyNone, PyStr(s), PyList(l),       *)
(*    PyInt(n), PyBool(b).                                                 *)
(*  - A concern label is a TLA+ string; an indicator string is a sequence   *)
(*    of one-character strings, so that lower() and the substring test are  *)
(*    computed character by character.                                     *)
(*  - Floats are kept in hundredths (1.0 is 100, 0.25 is 25, 3.5 is 350);   *)
(*    a PyFloat, the confidence read by the scorer and the flag, is in     *)
(*    thousandths, so that round(score, 2) has something to round.         *)
(***************************************************************************)
EXTENDS Integers, Sequences, FiniteSets, TLC

VARIABLES llava_result, gemma_result, score_difference, hashseed, out, prev,
          ensemble_results, row, table, run

vars ==
    <<llava_result, gemma_result, score_difference, hashseed, out, prev,
      ensemble_results, row, table, run>>

-----------------------------------------------------------------------------
(* Bounds of the model *)

\* longest run of distinct two-letter indicators in one indicator list
MaxRun == 11
\* number of distinct per-process string hash seeds
MaxSeed == 2
\* largest score difference handed to get_agreement_level, in halves
MaxHalves == 7
\* largest number of lines in a model response
MaxLines == 3
\* number of rows of the content_analysis table in a batch run
MaxItems == 3
\* largest max_concurrent a parallel driver is started with
MaxConcurrent == 2

-----------------------------------------------------------------------------
(* Python values *)

PyNone == [t |-> "None"]

PyStr(s) == [t |-> "str", v |-> s]

PyList(l) == [t |-> "list", v |-> l]

PyInt(n) == [t |-> "int", v |-> n]

PyBool(b) == [t |-> "bool", v |-> b]

\* a str kept as a sequence of characters (scene_description)
PyText(s) == [t |-> "text", v |-> s]

\* a float, kept in thousandths
PyFloat(m) == [t |-> "float", v |-> m]

\* bool(x) of a Python value
Truthy(x) ==
    CASE x.t = "None" -> FALSE
      [] x.t = "str"  -> x.v # ""
      [] x.t = "list" -> Len(x.v) > 0
      [] x.t = "text" -> Len(x.v) > 0
      [] x.t = "int"  -> x.v # 0
      [] x.t = "float" -> x.v # 0
      [] x.t = "bool" -> x.v

\* d.get(k, default)
Get(d, k, default) == IF k \in DOMAIN d THEN d[k] ELSE default

\* a or b
PyOr(a, b) == IF Truthy(a) THEN a ELSE b

\* the empty dict
EmptyDict == [k \in {} |-> PyNone]

\* dict d with key k set to value x
With(d, k, x) == [j \in DOMAIN d \cup {k} |-> IF j = k THEN x ELSE d[j]]

\* the union of two dicts with disjoint keys
Merge(d, e) ==
    [k \in DOMAIN d \cup DOMAIN e |-> IF k \in DOMAIN d THEN d[k] ELSE e[k]]

Min(a, b) == IF a <= b THEN a ELSE b

Abs(n) == IF n < 0 THEN -n ELSE n

\* the slice left out: the whole of s
Take_all(s, n) == s

\* s[:n]
Take(s, n) == SubSeq(s, 1, Min(n, Len(s)))

-----------------------------------------------------------------------------
(* Strings: sequences of characters *)

\* the characters used by the model's indicator strings, in code order
Alphabet ==
    << " ", "a", "b", "c", "d", "e", "f", "g", "h", "l", "m", "n", "o", "r",
       "s", "t", "u", "w", "y", "A", "B", "H", "N", "i", "k", "v" >>

CharCode(c) == CHOOSE i \in 1..Len(Alphabet) : Alphabet[i] = c

\* str.lower() on one character
LowerChar(c) ==
    CASE c = "A" -> "a"
      [] c = "B" -> "b"
      [] c = "H" -> "h"
      [] c = "N" -> "n"
      [] OTHER   -> c

\* s.lower()
Lower(s) == [i \in 1..Len(s) |-> LowerChar(s[i])]

\* a in b, for strings
IsSubstring(a, b) ==
    \E i \in 0..(Len(b) - Len(a)) : SubSeq(b, i + 1, i + Len(a)) = a

\* the containment test of combine_indicators, in either direction
Similar(indicator, existing) ==
    \/ IsSubstring(Lower(indicator), Lower(existing))
    \/ IsSubstring(Lower(existing), Lower(indicator))

\* a < b in the lexicographic order of character codes
StrLess(a, b) ==
    \E i \in 1..(Min(Len(a), Len(b)) + 1) :
        /\ \A j \in 1..(i - 1) : a[j] = b[j]
        /\ IF i > Len(a) THEN i <= Len(b)
           ELSE i <= Len(b) /\ CharCode(a[i]) < CharCode(b[i])

-----------------------------------------------------------------------------
(* Python's set of str: iteration follows the slots of the hash table, and  *)
(* the hash of a str depends on the seed the interpreter process drew.      *)

RECURSIVE StrHash(_, _)
\* hash(s) under the process's seed, reduced to a table slot
StrHash(seed, s) ==
    IF Len(s) = 0 THEN (7 * seed + 3) % 64
    ELSE (StrHash(seed, SubSeq(s, 1, Len(s) - 1)) * (31 + 2 * seed)
          + CharCode(s[Len(s)])) % 64

RECURSIVE SlotInsert(_, _, _)
\* the sequence q of <<slot, str>> pairs, kept in slot order (equal slots in
\* character order), with the pair p put in at or after position i
SlotInsert(q, i, p) ==
    IF i > Len(q) THEN Append(q, p)
    ELSE IF p[1] < q[i][1] \/ (p[1] = q[i][1] /\ StrLess(p[2], q[i][2]))
         THEN SubSeq(q, 1, i - 1) \o <<p>> \o SubSeq(q, i, Len(q))
         ELSE SlotInsert(q, i + 1, p)

RECURSIVE SlotSort(_, _, _)
\* the elements of S put into q one by one
SlotSort(seed, S, q) ==
    IF S = {} THEN q
    ELSE LET x == CHOOSE y \in S : TRUE
         IN  SlotSort(seed, S \ {x}, SlotInsert(q, 1, <<StrHash(seed, x), x>>))

\* list(S) for a set S of str
SetOrder(seed, S) ==
    LET q == SlotSort(seed, S, <<>>) IN [i \in 1..Len(q) |-> q[i][2]]

\* the set of the elements of a list
Range(l) == {l[i] : i \in 1..Len(l)}

-----------------------------------------------------------------------------
(* utils/ensemble.py *)

\* fault-injected variant of concern_map: the alternate set is shifted by one
concern_map_shifted ==
    [l \in {"low", "medium", "high", "critical",
            "minimal", "moderate", "severe", "extreme"} |->
        CASE l \in {"low"}                 -> 1
          [] l \in {"medium", "minimal"}   -> 2
          [] l \in {"high", "moderate"}    -> 3
          [] l \in {"critical", "severe", "extreme"} -> 4]

concern_map ==
    [l \in {"low", "medium", "high", "critical",
            "minimal", "moderate", "severe", "extreme"} |->
        CASE l \in {"low", "minimal"}      -> 1
          [] l \in {"medium", "moderate"}  -> 2
          [] l \in {"high", "severe"}      -> 3
          [] l \in {"critical", "extreme"} -> 4]

\* fault-injected variant of concern_map_get: the default is 0
concern_map_get_zero(label) ==
    IF label.t = "str" /\ label.v \in DOMAIN concern_map
    THEN concern_map[label.v] ELSE 0

\* concern_map.get(label, 1), label a Python value
concern_map_get(label) ==
    IF label.t = "str" /\ label.v \in DOMAIN concern_map
    THEN concern_map[label.v] ELSE 1

\* fault-injected variant of llava_score: a missing label counts as medium
llava_score_medium(lr) ==
    concern_map_get(Get(lr, "concern_level", PyStr("medium")))

\* llava_score: concern_map.get(llava_result.get('concern_level', 'low'), 1)
llava_score(lr) == concern_map_get(Get(lr, "concern_level", PyStr("low")))

\* fault-injected variant of gemma_concern: standard_concern_level is ignored
gemma_concern_only(gr) == Get(gr, "concern_level", PyStr("low"))

\* gemma_concern: concern_level, or else standard_concern_level, or else 'low'
gemma_concern(gr) ==
    PyOr(Get(gr, "concern_level", PyNone),
         Get(gr, "standard_concern_level", PyStr("low")))

gemma_score(gr) == concern_map_get(gemma_concern(gr))

\* avg_score, in hundredths
avg_score(ls, gs) == (100 * (ls + gs)) \div 2

\* fault-injected variant of ensemble_level: strict thresholds
ensemble_level_strict(avg) ==
    IF avg > 350 THEN "critical"
    ELSE IF avg > 250 THEN "high"
    ELSE IF avg > 150 THEN "medium"
    ELSE "low"

\* the if/elif chain mapping avg_score back to a concern level
ensemble_level(avg) ==
    IF avg >= 350 THEN "critical"
    ELSE IF avg >= 250 THEN "high"
    ELSE IF avg >= 150 THEN "medium"
    ELSE "low"

\* fault-injected variant of confidence: boosted when either score is >= 3
confidence_boost_either(ls, gs) ==
    LET base == 100 - Abs(ls - gs) * 25
    IN  IF ls >= 3 \/ gs >= 3 THEN Min(100, base + 10) ELSE base

\* confidence, in hundredths, rounded to two decimals (exact in hundredths)
confidence(ls, gs) ==
    LET base == 100 - Abs(ls - gs) * 25
    IN  IF ls >= 3 /\ gs >= 3 THEN Min(100, base + 10) ELSE base

\* fault-injected variant of get_agreement_level: strict upper bounds
get_agreement_level_strict(d) ==
    IF d = 0 THEN "perfect"
    ELSE IF d < 100 THEN "high"
    ELSE IF d < 200 THEN "moderate"
    ELSE "low"

\* get_agreement_level; the difference is in hundredths
get_agreement_level(d) ==
    IF d = 0 THEN "perfect"
    ELSE IF d <= 100 THEN "high"
    ELSE IF d <= 200 THEN "moderate"
    ELSE "low"

\* combined_indicators.update(rec[key]) when rec.get(key) is truthy
Update(S, rec, key) ==
    IF Truthy(Get(rec, key, PyNone)) THEN S \cup Range(rec[key].v) ELSE S

\* the set combined_indicators after the five updates
pooled_indicators(lr, gr) ==
    LET s1 == Update({}, lr, "concern_indicators")
        s2 == Update(s1, lr, "restriction_indicators")
        s3 == Update(s2, gr, "exploitation_indicators")
        s4 == Update(s3, gr, "control_indicators")
    IN  Update(s4, gr, "welfare_concerns")

\* fault-injected variant of combined_indicators: the slice is left out
combined_indicators_uncapped(seed, lr, gr) ==
    SetOrder(seed, pooled_indicators(lr, gr))

\* list(combined_indicators)[:10]
combined_indicators(seed, lr, gr) ==
    Take(SetOrder(seed, pooled_indicators(lr, gr)), 10)

\* an f-string's rendering of a concern label
Format(x) == IF x.t = "None" THEN "None" ELSE x.v

\* personnel_count > 0 raises TypeError when the value is None
PersonnelRaises(lr) == Get(lr, "personnel_count", PyInt(0)).t = "None"

\* the list descriptions of create_consensus_description, before the join
descriptions(lr, gr) ==
    LET llava_concern == Get(lr, "concern_level", PyStr("unknown"))
        gemma_c == PyOr(Get(gr, "concern_level", PyNone),
                        Get(gr, "standard_concern_level", PyStr("unknown")))
        d1 == IF llava_concern = gemma_c
              THEN << [kind |-> "Both models agree on",
                       a |-> Format(llava_concern), b |-> Format(llava_concern)] >>
              ELSE << [kind |-> "Models show",
                       a |-> Format(llava_concern), b |-> Format(gemma_c)] >>
        d2 == IF Truthy(Get(lr, "scene_description", PyNone))
              THEN << [kind |-> "Visual analysis:",
                       text |-> Take(lr["scene_description"].v, 200)] >>
              ELSE <<>>
        d3 == IF Truthy(Get(gr, "scene_description", PyNone))
              THEN << [kind |-> "Humanitarian perspective:",
                       text |-> Take(gr["scene_description"].v, 200)] >>
              ELSE <<>>
        d4 == IF Get(lr, "personnel_count", PyInt(0)).v > 0
              THEN << [kind |-> "Personnel count:",
                       n |-> lr["personnel_count"].v] >>
              ELSE <<>>
        d5 == IF Truthy(Get(lr, "supervision_present", PyNone))
              THEN << [kind |-> "Supervision/control present"] >>
              ELSE <<>>
    IN  d1 \o d2 \o d3 \o d4 \o d5

\* create_consensus_description; a raised exception is [raised |-> TRUE]
create_consensus_description(lr, gr) ==
    IF PersonnelRaises(lr)
    THEN [raised |-> TRUE, error |-> "TypeError"]
    ELSE [raised |-> FALSE, text |-> descriptions(lr, gr)]

\* combine_analyses under the process's hash seed; a raised exception is
\* the outcome [raised |-> TRUE]
combine_analyses(seed, lr, gr) ==
    LET consensus_description == create_consensus_description(lr, gr)
    IN  IF consensus_description.raised
        THEN consensus_description
        ELSE [raised |-> FALSE,
              ensemble_concern_level |->
                  ensemble_level(avg_score(llava_score(lr), gemma_score(gr))),
              ensemble_confidence |->
                  confidence(llava_score(lr), gemma_score(gr)),
              llava_score |-> llava_score(lr),
              gemma_score |-> gemma_score(gr),
              agreement_level |->
                  get_agreement_level(
                      100 * Abs(llava_score(lr) - gemma_score(gr))),
              combined_indicators |-> combined_indicators(seed, lr, gr),
              consensus_description |-> consensus_description.text]

\* the dict combine_analyses returns, as Python values
ResultDict(res) ==
    [k \in {"ensemble_concern_level", "ensemble_confidence", "llava_score",
            "gemma_score", "agreement_level", "combined_indicators"} |->
        CASE k = "ensemble_concern_level" -> PyStr(res.ensemble_concern_level)
          [] k = "ensemble_confidence" -> PyFloat(10 * res.ensemble_confidence)
          [] k = "llava_score" -> PyInt(res.llava_score)
          [] k = "gemma_score" -> PyInt(res.gemma_score)
          [] k = "agreement_level" -> PyStr(res.agreement_level)
          [] k = "combined_indicators" -> PyList(res.combined_indicators)]

\* concern_scores with the order of the labels inverted
concern_scores_inverted ==
    [l \in {"low", "medium", "high", "critical"} |->
        CASE l = "low" -> 4 [] l = "medium" -> 3
          [] l = "high" -> 2 [] l = "critical" -> 1]

\* concern_scores of calculate_priority_score
concern_scores ==
    [l \in {"low", "medium", "high", "critical"} |->
        CASE l = "low" -> 1 [] l = "medium" -> 2
          [] l = "high" -> 3 [] l = "critical" -> 4]

\* concern_scores.get(level, 0), level a Python value
concern_scores_get(level) ==
    IF level.t = "str" /\ level.v \in DOMAIN concern_scores
    THEN concern_scores[level.v] ELSE 0

\* truncation to hundredths instead of rounding
Round2_down(m) == m \div 10

\* round(x, 2): thousandths to hundredths, ties to the even hundredth
Round2(m) ==
    LET q == m \div 10
        r == m % 10
    IN  IF r < 5 THEN q
        ELSE IF r > 5 THEN q + 1
        ELSE IF q % 2 = 0 THEN q ELSE q + 1

\* len(ensemble_result.get('combined_indicators', [])) raises on None
IndicatorsRaise(er) ==
    Get(er, "combined_indicators", PyList(<<>>)).t = "None"

\* calculate_priority_score; the score is in hundredths and a raised
\* exception is the outcome [raised |-> TRUE]
calculate_priority_score(er, lr, gr) ==
    IF \/ IndicatorsRaise(er)
       \/ Get(lr, "personnel_count", PyInt(0)).t = "None"
    THEN [raised |-> TRUE, error |-> "TypeError"]
    ELSE LET indicator_count ==
                 Len(Get(er, "combined_indicators", PyList(<<>>)).v)
             personnel_count == Get(lr, "personnel_count", PyInt(0)).v
             score ==
                 concern_scores_get(er["ensemble_concern_level"]) * 2000
                 + er["ensemble_confidence"].v * 2
                 + Min(indicator_count * 500, 3000)
                 + (IF personnel_count > 5 THEN 1000 ELSE 0)
                 + (IF personnel_count > 10 THEN 1000 ELSE 0)
                 + (IF Truthy(Get(lr, "supervision_present", PyNone))
                    THEN 1000 ELSE 0)
         IN  [raised |-> FALSE, score |-> Round2(score)]

\* should_flag_for_review with the disagreement rule read as
\* (low and llava_score >= 3) or gemma_score >= 3
should_flag_for_review_loose(er) ==
    IF /\ er["ensemble_concern_level"] \in {PyStr("high"), PyStr("critical")}
       /\ er["ensemble_confidence"].v >= 750
    THEN [raised |-> FALSE, flag |-> TRUE]
    ELSE IF \/ er["agreement_level"] = PyStr("low") /\ er["llava_score"].v >= 3
            \/ er["gemma_score"].v >= 3
    THEN [raised |-> FALSE, flag |-> TRUE]
    ELSE IF IndicatorsRaise(er)
    THEN [raised |-> TRUE, error |-> "TypeError"]
    ELSE IF Len(Get(er, "combined_indicators", PyList(<<>>)).v) >= 5
    THEN [raised |-> FALSE, flag |-> TRUE]
    ELSE [raised |-> FALSE, flag |-> FALSE]

\* should_flag_for_review; a raised exception is [raised |-> TRUE]
should_flag_for_review(er) ==
    IF /\ er["ensemble_concern_level"] \in {PyStr("high"), PyStr("critical")}
       /\ er["ensemble_confidence"].v >= 750
    THEN [raised |-> FALSE, flag |-> TRUE]
    ELSE IF /\ er["agreement_level"] = PyStr("low")
            /\ (er["llava_score"].v >= 3 \/ er["gemma_score"].v >= 3)
    THEN [raised |-> FALSE, flag |-> TRUE]
    ELSE IF IndicatorsRaise(er)
    THEN [raised |-> TRUE, error |-> "TypeError"]
    ELSE IF Len(Get(er, "combined_indicators", PyList(<<>>)).v) >= 5
    THEN [raised |-> FALSE, flag |-> TRUE]
    ELSE [raised |-> FALSE, flag |-> FALSE]

-----------------------------------------------------------------------------
(* scripts/image/apply_ensemble_analysis.py and process_missing_gemma.py *)

RECURSIVE AppendNew(_, _)
\* the loop over gemma_indicators: append each one not similar to an entry
AppendNew(all_indicators, gemma_indicators) ==
    IF gemma_indicators = <<>> THEN all_indicators
    ELSE LET indicator == Head(gemma_indicators)
             is_duplicate ==
                 \E i \in 1..Len(all_indicators) :
                     Similar(indicator, all_indicators[i])
         IN  AppendNew(IF is_duplicate THEN all_indicators
                       ELSE Append(all_indicators, indicator),
                       Tail(gemma_indicators))

\* EnsembleAnalyzer.combine_indicators
combine_indicators(llava_indicators, gemma_indicators) ==
    Take(AppendNew(llava_indicators, gemma_indicators), 15)

\* rec[key] when truthy, else the empty list
ListOrEmpty(rec, key) ==
    IF Truthy(Get(rec, key, PyNone)) THEN rec[key].v ELSE <<>>

\* the indicator list process_missing_gemma_analysis stores for gemma
stored_gemma_indicators(gr) ==
    Take(ListOrEmpty(gr, "exploitation_indicators")
         \o ListOrEmpty(gr, "control_indicators")
         \o ListOrEmpty(gr, "welfare_concerns"), 10)

\* the llava_indicators process_ensemble_analysis builds from a record
record_llava_indicators(lr) ==
    ListOrEmpty(lr, "concern_indicators")
    \o ListOrEmpty(lr, "restriction_indicators")

\* EnsembleAnalyzer.concern_scores
analyzer_concern_scores ==
    [l \in {"low", "medium", "high", "critical"} |->
        CASE l = "low" -> 1 [] l = "medium" -> 2
          [] l = "high" -> 3 [] l = "critical" -> 4]

\* self.concern_scores.get(concern, 1), concern a Python value
analyzer_concern_scores_get(concern) ==
    IF concern.t = "str" /\ concern.v \in DOMAIN analyzer_concern_scores
    THEN analyzer_concern_scores[concern.v] ELSE 1

\* EnsembleAnalyzer.combine_concern_levels; the confidence is in hundredths
combine_concern_levels(llava_label, gemma_label) ==
    LET ls == analyzer_concern_scores_get(llava_label)
        gs == analyzer_concern_scores_get(gemma_label)
        avg == (100 * (ls + gs)) \div 2
        level == IF avg >= 350 THEN "critical"
                 ELSE IF avg >= 250 THEN "high"
                 ELSE IF avg >= 150 THEN "medium"
                 ELSE "low"
        diff == Abs(ls - gs)
        conf == IF diff = 0 THEN 100
                ELSE IF diff = 1 THEN 75
                ELSE IF diff = 2 THEN 50
                ELSE 25
    IN  [ensemble_level |-> level,
         confidence |-> IF level \in {"high", "critical"}
                        THEN Min(100, conf + 10) ELSE conf]

\* the label process_missing_gemma_analysis stores for gemma:
\* standard_concern_level, or else concern_level, or else 'low'
stored_gemma_concern(gr) ==
    PyOr(Get(gr, "standard_concern_level", PyNone),
         Get(gr, "concern_level", PyStr("low")))

\* the llava_result process_missing_gemma_analysis builds from a row
row_llava_result(analysis) ==
    [k \in {"concern_level", "concern_indicators", "restriction_indicators",
            "scene_description", "personnel_count", "supervision_present"} |->
        IF k \in {"concern_indicators", "restriction_indicators"}
        THEN PyOr(analysis[k], PyList(<<>>))
        ELSE analysis[k]]

\* fault-injected variant of GemmaSucceeded: error_message is not looked at
GemmaSucceeded_any(gr) == DOMAIN gr # {}

\* the gemma analysis came back and carries no error_message
GemmaSucceeded(gr) == DOMAIN gr # {} /\ "error_message" \notin DOMAIN gr

-----------------------------------------------------------------------------
(* utils/gemma_analyzer.py and utils/ollama_analyzer.py *)

\* A line of a model response after strip(): the numbering or the dash it
\* starts with, the keywords of the parser that occur in it whatever their
\* case, and its text after the dash.
Line(lead, words, body) == [lead |-> lead, words |-> words, body |-> body]

\* the section a line opens, "" when it opens none
Section(line) ==
    IF "EXPLOITATION" \in line.words THEN "exploitation"
    ELSE IF "CONTROL" \in line.words \/ "RESTRICTION" \in line.words
    THEN "control"
    ELSE IF "LIVING" \in line.words /\ "STANDARD" \in line.words
    THEN "living"
    ELSE IF "WELFARE" \in line.words THEN "welfare"
    ELSE IF "SEVERITY" \in line.words \/ "RATING" \in line.words
    THEN "severity"
    ELSE ""

\* the concern level and confidence score read off the severity text
Severity(words) ==
    IF "EXTREME" \in words THEN <<"extreme", 950>>
    ELSE IF "SEVERE" \in words THEN <<"severe", 850>>
    ELSE IF "MODERATE" \in words THEN <<"moderate", 750>>
    ELSE <<"minimal", 650>>

RECURSIVE Join(_, _)
\* sep.join(list)
Join(sep, list) ==
    IF list = <<>> THEN <<>>
    ELSE IF Len(list) = 1 THEN list[1]
    ELSE list[1] \o sep \o Join(sep, Tail(list))

\* result as the parser initializes it
InitialResult(response_text) ==
    [k \in {"scene_description", "exploitation_indicators",
            "control_indicators", "living_conditions", "welfare_concerns",
            "concern_level", "confidence_score", "raw_analysis"} |->
        CASE k \in {"scene_description", "living_conditions"} -> PyText(<<>>)
          [] k = "concern_level" -> PyStr("minimal")
          [] k = "confidence_score" -> PyFloat(0)
          [] k = "raw_analysis" -> response_text
          [] OTHER -> PyList(<<>>)]

\* one turn of the loop over the lines; st holds current_section,
\* current_content, the keywords of current_content, and result
ParseLine(st, line) ==
    IF line.body = <<>> /\ line.lead = "" THEN st
    ELSE IF Section(line) # ""
    THEN [st EXCEPT !.section = Section(line), !.content = <<>>,
                    !.words = {}]
    ELSE IF st.section # "" /\ line.lead \notin {"1.", "2.", "3.", "4.", "5."}
    THEN LET content == Append(st.content, line.body)
             words == st.words \cup line.words
             result ==
                 CASE st.section = "exploitation" ->
                        With(st.result, "exploitation_indicators",
                             PyList(content))
                   [] st.section = "control" ->
                        With(st.result, "control_indicators", PyList(content))
                   [] st.section = "living" ->
                        With(st.result, "living_conditions",
                             PyText(Join(<<" ">>, content)))
                   [] st.section = "welfare" ->
                        With(st.result, "welfare_concerns", PyList(content))
                   [] st.section = "severity" ->
                        With(With(st.result, "concern_level",
                                  PyStr(Severity(words)[1])),
                             "confidence_score", PyFloat(Severity(words)[2]))
         IN  [section |-> st.section, content |-> content, words |-> words,
              result |-> result]
    ELSE st

RECURSIVE ParseLines(_, _)
\* the loop over the lines
ParseLines(st, lines) ==
    IF lines = <<>> THEN st
    ELSE ParseLines(ParseLine(st, Head(lines)), Tail(lines))

\* the scene description made of the first three indicators of each list
SceneFromIndicators(result) ==
    LET e == result["exploitation_indicators"].v
        c == result["control_indicators"].v
        w == result["welfare_concerns"].v
        d1 == IF e # <<>>
              THEN << (
                      <<"E", "x", "p", "l", "o", "i", "t", "a", "t", "i",
                        "o", "n", " ", "c", "o", "n", "c", "e", "r", "n",
                        "s", ":", " ">>
                      ) \o Join(<<",", " ">>, Take(e, 3)) >>
              ELSE <<>>
        d2 == IF c # <<>>
              THEN << (
                      <<"C", "o", "n", "t", "r", "o", "l", " ", "i", "n",
                        "d", "i", "c", "a", "t", "o", "r", "s", ":", " ">>
                      ) \o Join(<<",", " ">>, Take(c, 3)) >>
              ELSE <<>>
        d3 == IF w # <<>>
              THEN << (
                      <<"W", "e", "l", "f", "a", "r", "e", " ", "i", "s",
                        "s", "u", "e", "s", ":", " ">>
                      ) \o Join(<<",", " ">>, Take(w, 3)) >>
              ELSE <<>>
    IN  IF e # <<>> \/ c # <<>>
        THEN With(result, "scene_description",
                  PyText(Join(<<".", " ">>, d1 \o d2 \o d3)))
        ELSE result

\* fault-injected variant of standard_level_map: severe becomes critical
standard_level_map_shifted ==
    [l \in {"extreme", "severe", "moderate", "minimal"} |->
        CASE l = "extreme" -> "critical" [] l = "severe" -> "critical"
          [] l = "moderate" -> "medium" [] l = "minimal" -> "low"]

\* concern_map of the parser: Gemma's levels in the standard vocabulary
standard_level_map ==
    [l \in {"extreme", "severe", "moderate", "minimal"} |->
        CASE l = "extreme" -> "critical" [] l = "severe" -> "high"
          [] l = "moderate" -> "medium" [] l = "minimal" -> "low"]

\* GemmaAnalyzer._parse_analysis_response; a response that is not a str
\* makes split raise, and the except branch returns the basic result
parse_analysis_response(response_text) ==
    IF response_text.t # "list"
    THEN [k \in {"scene_description", "concern_level",
                 "exploitation_indicators", "control_indicators",
                 "welfare_concerns", "confidence_score", "raw_analysis"} |->
             CASE k = "scene_description" -> PyText(<<>>)
               [] k = "concern_level" -> PyStr("low")
               [] k = "confidence_score" -> PyFloat(500)
               [] k = "raw_analysis" -> response_text
               [] OTHER -> PyList(<<>>)]
    ELSE LET st == ParseLines([section |-> "", content |-> <<>>,
                               words |-> {},
                               result |-> InitialResult(response_text)],
                              response_text.v)
             result == SceneFromIndicators(st.result)
             level == result["concern_level"].v
         IN  With(result, "standard_concern_level",
                  PyStr(IF level \in DOMAIN standard_level_map
                        THEN standard_level_map[level] ELSE "low"))

\* analyze_image of GemmaAnalyzer when the model answered: the parsed
\* analysis with the keys analyze_image adds
analyze_image(response_text) ==
    Merge(parse_analysis_response(response_text),
          [k \in {"processing_time", "analysis_model", "analysis_type"} |->
              CASE k = "processing_time" -> PyFloat(1000)
                [] k = "analysis_model" -> PyStr("gemma3n:e4b")
                [] k = "analysis_type" -> PyStr("humanitarian_perspective")])

-----------------------------------------------------------------------------
(* Input records *)

Letters == <<"a", "b", "c", "d", "e">>

\* the i-th two-letter indicator; distinct i give unrelated indicators
Word(i) == <<Letters[((i \div 5) % 5) + 1], Letters[(i % 5) + 1]>>

\* the list of n consecutive two-letter indicators from the start-th on
Run(start, n) == [k \in 1..n |-> Word(start + k - 1)]

NoHelmets == <<"n","o"," ","h","e","l","m","e","t","s">>

NoHelmetsCaps == <<"N","o"," ","H","e","l","m","e","t","s">>

Helmets == <<"h","e","l","m","e","t","s">>

NoSafetyHelmetsWorn ==
    <<"n","o"," ","s","a","f","e","t","y"," ","h","e","l","m","e","t","s",
      " ","w","o","r","n">>

FencedArea == <<"f","e","n","c","e","d"," ","a","r","e","a">>

Guards == <<"g","u","a","r","d","s">>

\* dicts over one key whose value ranges over V, and the dict without it
Field(key, V) == {EmptyDict} \cup {With(EmptyDict, key, x) : x \in V}

Labels ==
    {PyNone, PyStr("")}
    \cup {PyStr(l) : l \in DOMAIN concern_map \cup {"unknown"}}

\* records that carry labels only
LlavaLabelRecords == Field("concern_level", Labels)

\* every label under concern_level alone; every label under
\* standard_concern_level beside a concern_level that is missing, falsy or
\* outside the vocabularies; and two records whose two fields disagree
GemmaLabelRecords ==
    Field("concern_level", Labels)
    \cup {Merge(c, With(EmptyDict, "standard_concern_level", x)) :
            c \in Field("concern_level",
                        {PyNone, PyStr(""), PyStr("unknown")}),
            x \in Labels}
    \cup {Merge(With(EmptyDict, "concern_level", PyStr("severe")),
                With(EmptyDict, "standard_concern_level", PyStr(l))) :
            l \in {"high", "low"}}

\* records with the labels of the indicator test and lists of indicators
LlavaIndicatorRecords ==
    {Merge(Merge(With(EmptyDict, "concern_level", PyStr("medium")), c), r) :
        c \in Field("concern_indicators",
                    {PyNone, PyList(<<>>)}
                    \cup {PyList(Run(0, n)) : n \in {2, MaxRun - 1, MaxRun}}),
        r \in Field("restriction_indicators", {PyList(Run(MaxRun, 6))})}

GemmaIndicatorRecords ==
    {Merge(Merge(Merge(With(EmptyDict, "concern_level", PyStr("moderate")),
                       e), c), w) :
        e \in Field("exploitation_indicators",
                    {PyList(<<>>), PyList(Run(MaxRun + 6, 2)),
                     PyList(Run(MaxRun + 6, 7))}),
        c \in Field("control_indicators", {PyList(Run(1, 3))}),
        w \in Field("welfare_concerns", {PyNone, PyList(Run(MaxRun + 13, 1))})}

\* records whose indicators are related by containment or by case
LlavaRelatedRecords ==
    Field("concern_indicators",
          {PyList(<<NoHelmets, NoSafetyHelmetsWorn>>),
           PyList(<<FencedArea, Guards>>),
           PyList(<<Helmets, NoHelmets>>),
           PyList(<<NoHelmets, Helmets, NoHelmets>>)})

GemmaRelatedRecords ==
    Field("exploitation_indicators",
          {PyList(<<NoHelmetsCaps>>), PyList(<<NoHelmets, Guards>>),
           PyList(<<Word(0), Word(0)>>)})

ShortText == <<"a", "b">>

\* a scene text longer than the 200 characters the narrative keeps
LongText == [i \in 1..203 |-> Letters[(i % 5) + 1]]

NoSafetyGear == <<"n","o"," ","s","a","f","e","t","y"," ","g","e","a","r">>

WorkingAtHeight ==
    <<"w","o","r","k","i","n","g"," ","a","t"," ","h","e","i","g","h","t">>

OvercrowdedConditions ==
    <<"o","v","e","r","c","r","o","w","d","e","d"," ",
      "c","o","n","d","i","t","i","o","n","s">>

\* the records of the end-to-end scenario
LlavaScenarioRecords ==
    {Merge(With(EmptyDict, "concern_level", PyStr("high")),
           With(EmptyDict, "concern_indicators",
                PyList(<<NoSafetyGear, WorkingAtHeight>>)))}

GemmaScenarioRecords ==
    {Merge(With(EmptyDict, "standard_concern_level", PyStr("severe")),
           With(EmptyDict, "exploitation_indicators",
                PyList(<<OvercrowdedConditions>>)))}

\* records with the optional fields of the narrative
LlavaOptionalRecords ==
    {Merge(Merge(p, sv), sc) :
        p \in Field("personnel_count",
                    {PyNone, PyInt(0), PyInt(6), PyInt(12)}),
        sv \in Field("supervision_present",
                     {PyNone, PyBool(TRUE), PyBool(FALSE)}),
        sc \in Field("scene_description",
                     {PyNone, PyText(ShortText), PyText(LongText)})}

GemmaOptionalRecords ==
    Field("scene_description",
          {PyText(<<>>), PyText(ShortText), PyText(LongText)})

\* the score differences handed to get_agreement_level directly
Differences == {50 * h : h \in 0..MaxHalves}

\* the inputs of the model: two records and a score difference
Inputs ==
    (LlavaLabelRecords \X GemmaLabelRecords \X {0})
    \cup (LlavaIndicatorRecords \X GemmaIndicatorRecords \X {0})
    \cup (LlavaRelatedRecords \X GemmaRelatedRecords \X {0})
    \cup (LlavaOptionalRecords \X GemmaOptionalRecords \X {0})
    \cup (LlavaScenarioRecords \X GemmaScenarioRecords \X {0})
    \cup ({EmptyDict} \X {EmptyDict} \X Differences)

Seeds == 0..(MaxSeed - 1)

\* the columns of a content_analysis row
LlavaColumns ==
    {"concern_level", "concern_indicators", "restriction_indicators",
     "scene_description", "personnel_count", "supervision_present"}

GemmaColumns ==
    {"gemma_description", "gemma_concern_level", "gemma_indicators"}

EnsembleColumns ==
    {"ensemble_concern_level", "ensemble_confidence", "ensemble_indicators"}

\* a row with a llava analysis and neither gemma nor ensemble analysis
Row(concern_level, concern_indicators, personnel_count) ==
    [k \in LlavaColumns \cup GemmaColumns \cup EnsembleColumns |->
        CASE k = "concern_level" -> concern_level
          [] k = "concern_indicators" -> concern_indicators
          [] k = "personnel_count" -> personnel_count
          [] OTHER -> PyNone]

\* the rows that miss their gemma analysis
Rows ==
    {Row(l, ci, pc) :
        l \in {PyNone} \cup {PyStr(x) : x \in {"low", "medium", "high",
                                                "critical", "unknown"}},
        ci \in {PyNone, PyList(Run(0, 2))},
        pc \in {PyNone, PyInt(6)}}

\* what analyzer.analyze_image hands back: nothing, an error, labels, or
\* a label with indicators
GemmaAnalyses ==
    GemmaLabelRecords
    \cup {With(EmptyDict, "error_message", PyStr("error"))}
    \cup {Merge(With(EmptyDict, "standard_concern_level", PyStr("high")),
                With(EmptyDict, "exploitation_indicators",
                     PyList(Run(1, 2))))}

\* the lines a response of the model is made of: section headers, a
\* header that carries the rating on the same line, rating lines, an
\* observation, a numbered line that opens no section, an empty line
Lines ==
    {Line("1.", {"EXPLOITATION"}, Word(0)),
     Line("2.", {"CONTROL", "RESTRICTION"}, Word(0)),
     Line("5.", {"SEVERITY", "RATING"}, Word(0)),
     Line("", {"SEVERITY", "SEVERE"}, Word(0)),
     Line("-", {"EXTREME"}, Word(1)),
     Line("-", {"SEVERE"}, Word(2)),
     Line("", {"MODERATE"}, Word(3)),
     Line("-", {}, NoHelmets),
     Line("3.", {}, Word(4)),
     Line("", {}, <<>>)}

\* the responses handed to the parser: texts of at most MaxLines lines,
\* and a response that is no text
Responses ==
    {PyNone} \cup {PyList(l) : l \in UNION {[1..n -> Lines] : n \in 0..MaxLines}}

\* the rows whose image is analysed
ParseRows ==
    {Row(PyStr(l), PyNone, PyInt(6)) : l \in {"low", "high"}}

\* the four labels of an ensemble result, lowest first
EnsembleLevels == <<"low", "medium", "high", "critical">>

\* an ensemble result without its indicators; conf is in thousandths
Ensemble(level, conf, agreement, ls, gs) ==
    [k \in {"ensemble_concern_level", "ensemble_confidence",
            "agreement_level", "llava_score", "gemma_score"} |->
        CASE k = "ensemble_concern_level" -> PyStr(level)
          [] k = "ensemble_confidence" -> PyFloat(conf)
          [] k = "agreement_level" -> PyStr(agreement)
          [] k = "llava_score" -> PyInt(ls)
          [] k = "gemma_score" -> PyInt(gs)]

\* the ensemble results handed to calculate_priority_score: every level
\* with confidences of two and of three decimals
PriorityEnsembles ==
    {Ensemble(EnsembleLevels[i], c, "perfect", i, i) :
        i \in 1..4, c \in {333, 334, 900, 1000}}

\* combined_indicators absent, null, or a list
IndicatorFields ==
    Field("combined_indicators",
          {PyNone} \cup {PyList(Run(0, n)) : n \in {0, 1, 5, 6, 7}})

\* the five indicators of the priority test
TestIndicators == With(EmptyDict, "combined_indicators", PyList(Run(0, 5)))

\* llava records around the personnel thresholds and the supervision flag
PriorityLlavaRecords ==
    Field("personnel_count",
          {PyNone} \cup {PyInt(n) : n \in {0, 5, 6, 10, 11, 12, 15}})
    \cup Field("supervision_present",
               {PyNone, PyBool(TRUE), PyBool(FALSE)})
    \cup {Merge(With(EmptyDict, "personnel_count", PyInt(15)),
                With(EmptyDict, "supervision_present", PyBool(TRUE)))}

\* the ensemble results that differ from b1 in the level or in the
\* confidence at most
Variants(b1) ==
    {b \in PriorityEnsembles :
        \/ b["ensemble_concern_level"] = b1["ensemble_concern_level"]
        \/ b["ensemble_confidence"] = b1["ensemble_confidence"]}

\* a llava record and two ensemble results, the second a variant of the
\* first, with the same indicators
PriorityInputs ==
    UNION {{<<x[1], Merge(b1, x[2]), Merge(b2, x[2])>> :
               x \in ({EmptyDict} \X IndicatorFields)
                     \cup (PriorityLlavaRecords \X {TestIndicators}),
               b2 \in Variants(b1)} :
           b1 \in PriorityEnsembles}

\* the ensemble results handed to should_flag_for_review
FlagEnsembles ==
    {Merge(Ensemble(EnsembleLevels[i], c, a, sc[1], sc[2]), f) :
        i \in 1..4, c \in {500, 740, 750, 800, 900},
        a \in {"perfect", "high", "moderate", "low"},
        sc \in {<<1, 1>>, <<2, 2>>, <<3, 1>>, <<1, 3>>, <<4, 1>>},
        f \in Field("combined_indicators",
                    {PyNone} \cup {PyList(Run(0, n)) : n \in {0, 4, 5}})}

FlagInputs == {<<EmptyDict, e, e>> : e \in FlagEnsembles}

ScoreInputs == PriorityInputs \cup FlagInputs

-----------------------------------------------------------------------------
(* The state machine *)

NoCall == [op |-> "none"]

\* no stored row is involved
NoRow == [id |-> 0]

\* no script is running
NoRun == [name |-> "none"]

Init ==
    /\ \E p \in Inputs :
           /\ llava_result = p[1]
           /\ gemma_result = p[2]
           /\ score_difference = p[3]
    /\ hashseed \in Seeds
    /\ out = NoCall
    /\ prev = NoCall
    /\ table = <<>>
    /\ run = NoRun
    /\ ensemble_results = <<>>
    /\ row = NoRow

\* the inputs and the process stay as they are across a call
Inputs_unchanged ==
    UNCHANGED <<table, run, llava_result, gemma_result, score_difference, hashseed,
                ensemble_results, row>>

\* combine_analyses(llava_result, gemma_result)
Combine ==
    /\ out' = [op |-> "combine",
               res |-> combine_analyses(hashseed, llava_result, gemma_result)]
    /\ prev' = out
    /\ Inputs_unchanged

\* combine_analyses with the two records exchanged
CombineSwapped ==
    /\ out' = [op |-> "swapped",
               res |-> combine_analyses(hashseed, gemma_result, llava_result)]
    /\ prev' = out
    /\ Inputs_unchanged

\* get_agreement_level(score_difference)
AgreementLevel ==
    /\ out' = [op |-> "agreement",
               res |-> get_agreement_level(score_difference)]
    /\ prev' = out
    /\ Inputs_unchanged

\* EnsembleAnalyzer.combine_indicators on the stored record of the item
CombineIndicators ==
    /\ out' = [op |-> "combine_indicators",
               res |-> combine_indicators(
                           record_llava_indicators(llava_result),
                           stored_gemma_indicators(gemma_result))]
    /\ prev' = out
    /\ Inputs_unchanged

\* the work is taken up again by a new interpreter process
NewProcess ==
    /\ hashseed' \in Seeds \ {hashseed}
    /\ UNCHANGED <<table, run, llava_result, gemma_result, score_difference, out, prev,
                   ensemble_results, row>>

\* should_flag_for_review(combined) on the result combine_analyses returned
FlagForReview ==
    /\ out.op = "combine"
    /\ ~out.res.raised
    /\ out' = [op |-> "flag",
               res |-> should_flag_for_review(ResultDict(out.res))]
    /\ prev' = out
    /\ Inputs_unchanged

Next ==
    \/ Combine
    \/ CombineSwapped
    \/ AgreementLevel
    \/ CombineIndicators
    \/ NewProcess
    \/ FlagForReview

Spec == Init /\ [][Next]_vars

-----------------------------------------------------------------------------
(* process_missing_gemma_analysis, then process_ensemble_analysis, on a row *)

InitStore ==
    /\ row \in Rows
    /\ gemma_result \in GemmaAnalyses
    /\ llava_result = EmptyDict
    /\ score_difference = 0
    /\ hashseed = 0
    /\ ensemble_results = <<>>
    /\ out = NoCall
    /\ prev = NoCall
    /\ table = <<>>
    /\ run = NoRun

\* lines 95 to 172 of a turn of the loop of process_missing_gemma_analysis
\* on the row analysis with the analyzer's result gr: what the turn comes
\* to (res) and the row as the database holds it afterwards
process_item(seed, analysis, gr) ==
    LET lr == row_llava_result(analysis)
        combined == combine_analyses(seed, lr, gr)
        priority == calculate_priority_score(ResultDict(combined), lr, gr)
        flag == should_flag_for_review(ResultDict(combined))
    IN  IF ~GemmaSucceeded(gr)
        THEN [res |-> [committed |-> FALSE, failed |-> "gemma"],
              row |-> analysis]
        ELSE IF combined.raised \/ priority.raised \/ flag.raised
        THEN [res |-> [committed |-> FALSE, failed |-> "error"],
              row |-> analysis]
        ELSE [res |-> [committed |-> TRUE,
                       ensemble_concern_level |->
                           combined.ensemble_concern_level,
                       ensemble_confidence |-> combined.ensemble_confidence,
                       gemma_score |-> combined.gemma_score,
                       priority |-> priority.score,
                       flagged |-> flag.flag],
              row |->
                  [k \in DOMAIN analysis |->
                     CASE k = "gemma_description" ->
                            Get(gr, "scene_description", PyText(<<>>))
                       [] k = "gemma_concern_level" ->
                            stored_gemma_concern(gr)
                       [] k = "gemma_indicators" ->
                            PyList(stored_gemma_indicators(gr))
                       [] k = "ensemble_concern_level" ->
                            PyStr(combined.ensemble_concern_level)
                       [] k = "ensemble_confidence" ->
                            PyFloat(10 * combined.ensemble_confidence)
                       [] OTHER -> analysis[k]]]

\* one turn of the loop of process_missing_gemma_analysis, for a row whose
\* gemma_description is NULL: the gemma fields and the ensemble are written
\* and committed, or the turn fails and the row stays as it was
ProcessMissingGemma ==
    /\ row # NoRow
    /\ row["gemma_description"] = PyNone
    /\ out' = [op |-> "process_missing_gemma",
               res |-> process_item(hashseed, row, gemma_result).res]
    /\ row' = process_item(hashseed, row, gemma_result).row
    /\ prev' = out
    /\ UNCHANGED <<table, run, llava_result, gemma_result, score_difference,
                   hashseed, ensemble_results>>

\* the loop body of process_ensemble_analysis on one selected record: the
\* row with ensemble level, confidence and indicators written anew
write_ensemble(analysis) ==
    LET c == combine_concern_levels(analysis["concern_level"],
                                    analysis["gemma_concern_level"])
        ensemble_indicators ==
            combine_indicators(record_llava_indicators(analysis),
                               ListOrEmpty(analysis, "gemma_indicators"))
    IN  [k \in DOMAIN analysis |->
           CASE k = "ensemble_concern_level" -> PyStr(c.ensemble_level)
             [] k = "ensemble_confidence" -> PyFloat(10 * c.confidence)
             [] k = "ensemble_indicators" -> PyList(ensemble_indicators)
             [] OTHER -> analysis[k]]

\* process_ensemble_analysis(session, force_update): the row is selected
\* when both labels are stored and, without force_update, no ensemble
\* level is; a selected row gets level, confidence and indicators anew
ProcessEnsembleAnalysis ==
    /\ row # NoRow
    /\ \E force_update \in BOOLEAN :
          LET selected ==
                  /\ row["concern_level"] # PyNone
                  /\ row["gemma_concern_level"] # PyNone
                  /\ force_update \/ row["ensemble_concern_level"] = PyNone
              c == combine_concern_levels(row["concern_level"],
                                          row["gemma_concern_level"])
          IN  IF ~selected
              THEN /\ out' = [op |-> "process_ensemble_analysis",
                              force_update |-> force_update,
                              res |-> [updated |-> FALSE]]
                   /\ row' = row
              ELSE /\ out' = [op |-> "process_ensemble_analysis",
                              force_update |-> force_update,
                              res |-> [updated |-> TRUE,
                                       ensemble_concern_level |->
                                           c.ensemble_level,
                                       ensemble_confidence |-> c.confidence]]
                   /\ row' = write_ensemble(row)
    /\ prev' = out
    /\ UNCHANGED <<table, run, llava_result, gemma_result, score_difference, hashseed,
                   ensemble_results>>

NextStore ==
    \/ ProcessMissingGemma
    \/ ProcessEnsembleAnalysis

SpecStore == InitStore /\ [][NextStore]_vars

-----------------------------------------------------------------------------
(* SpecBatch: the two scripts run over a table of several rows.  An entry  *)
(* of the table is a content_analysis row together with the file_path of   *)
(* its captured image (FALSE when no image file is recorded).  The scripts *)
(* are run one after the other, never at the same time.                    *)

\* the rows of a batch: one that scores, one whose missing personnel_count
\* makes the turn raise, one without a llava label, one that holds both
\* labels and no ensemble yet
BatchRows ==
    LET scored == Row(PyStr("high"), PyList(Run(0, 2)), PyInt(6))
    IN  {scored,
         Row(PyStr("low"), PyNone, PyNone),
         Row(PyNone, PyNone, PyInt(6)),
         [scored EXCEPT !["gemma_description"] = PyText(Word(0)),
                        !["gemma_concern_level"] = PyStr("low")]}

Items ==
    {[analysis |-> r, file_path |-> TRUE] : r \in BatchRows}
    \cup {[analysis |-> Row(PyStr("high"), PyList(Run(0, 2)), PyInt(6)),
           file_path |-> FALSE]}

\* what the analyzer returns in a batch: nothing, an error, an analysis
BatchAnalyses ==
    {EmptyDict,
     With(EmptyDict, "error_message", PyStr("error")),
     Merge(With(EmptyDict, "standard_concern_level", PyStr("high")),
           With(EmptyDict, "exploitation_indicators", PyList(Run(1, 2))))}

\* the --limit argument: absent, or a number
Limits == {PyNone, PyInt(0), PyInt(1)}

\* the orders in which a query without ORDER BY may return the rows S
Orders(S) ==
    {f \in [1..Cardinality(S) -> S] :
        \A a, b \in 1..Cardinality(S) : a # b => f[a] # f[b]}

\* the numbers of the rows the query for missing gemma analyses matches
query_missing_gemma(tbl, only_high_concern) ==
    {j \in 1..Len(tbl) :
        /\ tbl[j].analysis["gemma_description"] = PyNone
        /\ only_high_concern =>
              tbl[j].analysis["concern_level"]
                  \in {PyStr("high"), PyStr("critical")}}

\* records[:limit] if limit and limit < len(records), else records
Limited(records, limit) ==
    IF Truthy(limit) /\ limit.v < Len(records)
    THEN Take(records, limit.v)
    ELSE records

\* fault-injected variant of count_turn: a turn that raises is not counted
count_turn_silent(r, res) ==
    CASE res.committed ->
           [r EXCEPT !.i = @ + 1, !.processed_count = @ + 1]
      [] ~res.committed /\ res.failed = "gemma" ->
           [r EXCEPT !.i = @ + 1, !.failed_count = @ + 1]
      [] OTHER -> [r EXCEPT !.i = @ + 1]

\* the counters after a turn that analysed the image: processed_count after
\* the commit, failed_count in the else branch and in the except branch
count_turn(r, res) ==
    IF res.committed
    THEN [r EXCEPT !.i = @ + 1, !.processed_count = @ + 1]
    ELSE [r EXCEPT !.i = @ + 1, !.failed_count = @ + 1]

\* the banner a run of process_missing_gemma_analysis opens with
Started == [op |-> "process_missing_gemma_analysis", started |-> TRUE]

\* what a finished run of process_missing_gemma_analysis printed
Summary(r) ==
    [op |-> "process_missing_gemma_analysis",
     res |-> [selected |-> Len(r.missing_gemma),
              processed_count |-> r.processed_count,
              failed_count |-> r.failed_count,
              skipped |-> r.skipped]]

InitBatch ==
    /\ table \in [1..MaxItems -> Items]
    /\ run = NoRun
    /\ row = NoRow
    /\ llava_result = EmptyDict
    /\ gemma_result = EmptyDict
    /\ score_difference = 0
    /\ hashseed = 0
    /\ ensemble_results = <<>>
    /\ out = NoCall
    /\ prev = NoCall

\* process_missing_gemma_analysis(limit, only_high_concern) up to the loop:
\* the query, the limit, the early return when nothing is missing, the
\* counters set to zero; skipped counts the "No image file found" lines
StartGemmaRun ==
    /\ run = NoRun
    /\ \E limit \in Limits, only_high_concern \in BOOLEAN :
         \E missing_gemma \in Orders(query_missing_gemma(table,
                                                         only_high_concern)) :
            IF Len(missing_gemma) = 0
            THEN /\ out' = Summary([missing_gemma |-> <<>>,
                                    processed_count |-> 0,
                                    failed_count |-> 0, skipped |-> 0])
                 /\ run' = run
            ELSE /\ run' = [name |-> "process_missing_gemma_analysis",
                            missing_gemma |-> Limited(missing_gemma, limit),
                            i |-> 0, processed_count |-> 0,
                            failed_count |-> 0, skipped |-> 0]
                 /\ out' = Started
    /\ UNCHANGED <<prev, table, llava_result, gemma_result, score_difference,
                   hashseed, ensemble_results, row>>

\* one turn of the loop: no image file, continue; otherwise the analyzer
\* answers and the turn commits the row or fails and leaves it alone
GemmaTurn ==
    /\ run # NoRun
    /\ run.i < Len(run.missing_gemma)
    /\ \E gr \in BatchAnalyses :
         LET j == run.missing_gemma[run.i + 1]
             turn == process_item(hashseed, table[j].analysis, gr)
         IN  IF ~table[j].file_path
             THEN /\ table' = table
                  /\ run' = [run EXCEPT !.i = @ + 1, !.skipped = @ + 1]
             ELSE /\ table' = [table EXCEPT ![j].analysis = turn.row]
                  /\ run' = count_turn(run, turn.res)
    /\ UNCHANGED <<out, prev, llava_result, gemma_result, score_difference,
                   hashseed, ensemble_results, row>>

\* the loop is over: the final summary
FinishGemmaRun ==
    /\ run # NoRun
    /\ run.i = Len(run.missing_gemma)
    /\ out' = Summary(run)
    /\ run' = NoRun
    /\ UNCHANGED <<prev, table, llava_result, gemma_result, score_difference,
                   hashseed, ensemble_results, row>>

\* both assessments are stored
has_both(analysis) ==
    /\ analysis["concern_level"] # PyNone
    /\ analysis["gemma_concern_level"] # PyNone

\* fault-injected variant of ensemble_query: the rows that already hold an
\* ensemble level are selected as well
ensemble_query_all(tbl, force_update) ==
    SelectSeq([j \in 1..Len(tbl) |-> j],
              LAMBDA j : has_both(tbl[j].analysis))

\* the records the query of process_ensemble_analysis returns, as row
\* numbers ORDER BY result_id
ensemble_query(tbl, force_update) ==
    SelectSeq([j \in 1..Len(tbl) |-> j],
              LAMBDA j :
                  /\ has_both(tbl[j].analysis)
                  /\ force_update
                       \/ tbl[j].analysis["ensemble_concern_level"] = PyNone)

\* process_ensemble_analysis(session, limit, force_update): how many
\* records the query found, the records written, the table after the
\* single commit
process_ensemble_analysis(tbl, limit, force_update) ==
    LET total == ensemble_query(tbl, force_update)
        records == Limited(total, limit)
    IN  [total_records |-> Len(total),
         records |-> records,
         table |-> [j \in 1..Len(tbl) |->
                       IF j \in Range(records)
                       THEN [tbl[j] EXCEPT
                                !.analysis = write_ensemble(tbl[j].analysis)]
                       ELSE tbl[j]]]

\* main() of apply_ensemble_analysis.py: the statistics, the two early
\* returns, then process_ensemble_analysis
ApplyEnsembleAnalysis ==
    /\ run = NoRun
    /\ \E limit \in Limits, force_update \in BOOLEAN :
         LET with_both ==
                 Cardinality({j \in 1..Len(table) :
                                 has_both(table[j].analysis)})
             with_ensemble ==
                 Cardinality({j \in 1..Len(table) :
                     table[j].analysis["ensemble_concern_level"] # PyNone})
             pending == with_both - with_ensemble
             p == process_ensemble_analysis(table, limit, force_update)
         IN  IF with_both = 0 \/ (pending = 0 /\ ~force_update)
             THEN /\ table' = table
                  /\ out' = [op |-> "apply_ensemble_analysis",
                             force_update |-> force_update, limit |-> limit,
                             called |-> FALSE, total_records |-> 0]
             ELSE /\ table' = p.table
                  /\ out' = [op |-> "apply_ensemble_analysis",
                             force_update |-> force_update, limit |-> limit,
                             called |-> TRUE,
                             total_records |-> p.total_records]
    /\ UNCHANGED <<prev, run, llava_result, gemma_result, score_difference,
                   hashseed, ensemble_results, row>>

NextBatch ==
    \/ StartGemmaRun
    \/ GemmaTurn
    \/ FinishGemmaRun
    \/ ApplyEnsembleAnalysis

SpecBatch == InitBatch /\ [][NextBatch]_vars

-----------------------------------------------------------------------------
(* SpecParallel: the drivers that start one coroutine per item, each of    *)
(* which does its work inside "async with semaphore".                      *)
(*   process_all_missing       ParallelLLaVAProcessor, batch after batch   *)
(*   process_batch             ParallelGemma12bProcessor, one batch        *)
(*   process_pending_analysis  ArticleAnalysisProcessor, asyncio.gather    *)
(* run holds the semaphore's counter (value), the state of every coroutine *)
(* of the current batch (pc) and the results awaited so far; table holds   *)
(* the content_analysis rows committed, whose result_id is unique.         *)

Drivers == {"process_all_missing", "process_batch", "process_pending_analysis"}

\* process_batch awaits its coroutines one after the other, and a coroutine
\* does not start before it is awaited; asyncio.gather starts them all
Sequential(name) == name # "process_pending_analysis"

\* what the query returns, as result ids ORDER BY sr.id: one entry per
\* captured image, so a result with two captured images comes twice
JoinRows ==
    {s \in UNION {[1..n -> 1..MaxItems] : n \in 0..MaxItems} :
        \A a, b \in DOMAIN s : a < b => s[a] <= s[b]}

\* the items of the two drivers that create no row: n distinct ones
Consecutive == {[k \in 1..n |-> k] : n \in 0..MaxItems}

\* the items a driver may be started on
DriverData(name) ==
    IF name = "process_all_missing" THEN JoinRows ELSE Consecutive

\* batch_size = self.max_concurrent * 2; the other two drivers start all
\* their items at once
batch_size(name, max_concurrent, data) ==
    IF name = "process_all_missing" THEN max_concurrent * 2 ELSE Len(data)

\* missing_data[i:i+batch_size]
Batch(r) ==
    SubSeq(r.missing_data, r.i + 1, Min(r.i + r.size, Len(r.missing_data)))

\* the loop of process_all_missing takes the batch that starts at i
NewBatch(r, i) ==
    LET at == [r EXCEPT !.i = i]
    IN  [at EXCEPT !.pc = [t \in 1..Len(Batch(at)) |-> "created"],
                   !.results = <<>>]

\* fault-injected variant of can_acquire: the semaphore lets everyone in
can_acquire_always(r) == TRUE

\* async with semaphore: the coroutine gets in while the counter is positive
can_acquire(r) == r.value > 0

\* the ContentAnalysis rows the save loop adds: one per result that carries
\* no error_message
new_rows(results) ==
    LET kept == SelectSeq(results, LAMBDA x : ~x.error_message)
    IN  [k \in 1..Len(kept) |-> [result_id |-> kept[k].result_id]]

\* session.commit() raises IntegrityError: two rows with one result_id
unique_violation(rows) ==
    \E a, b \in 1..Len(rows) : a # b /\ rows[a].result_id = rows[b].result_id

\* the content_analysis table with the rows committed, by result_id
Stored(rows) ==
    LET ids == {rows[a].result_id : a \in 1..Len(rows)}
        nth(k) == CHOOSE x \in ids : Cardinality({y \in ids : y < x}) = k - 1
    IN  [k \in 1..Cardinality(ids) |-> [result_id |-> nth(k)]]

\* what a run of a driver printed at its end
Report(r, aborted) ==
    [op |-> r.name,
     res |-> [selected |-> Len(r.missing_data),
              processed_count |-> r.processed_count,
              failed_count |-> r.failed_count,
              aborted |-> aborted]]

InitParallel ==
    /\ table = <<>>
    /\ run = NoRun
    /\ row = NoRow
    /\ llava_result = EmptyDict
    /\ gemma_result = EmptyDict
    /\ score_difference = 0
    /\ hashseed = 0
    /\ ensemble_results = <<>>
    /\ out = NoCall
    /\ prev = NoCall

\* a driver is started: the semaphore is made with max_concurrent permits,
\* the items are queried (process_all_missing finds the results that have
\* no content_analysis row) and limited, and the first batch of coroutines
\* is created; with nothing to do the driver returns at once
StartParallel ==
    /\ run = NoRun
    /\ \E name \in Drivers, max_concurrent \in 1..MaxConcurrent,
          limit \in Limits :
      \E data \in DriverData(name) :
         LET r == [name |-> name, max_concurrent |-> max_concurrent,
                   value |-> max_concurrent,
                   missing_data |-> Limited(data, limit),
                   i |-> 0, size |-> batch_size(name, max_concurrent, data),
                   pc |-> <<>>, results |-> <<>>,
                   processed_count |-> 0, failed_count |-> 0]
         IN  /\ name = "process_all_missing" =>
                   \A k \in Range(data) :
                      \A a \in 1..Len(table) : table[a].result_id # k
             /\ IF Len(data) = 0
                THEN /\ run' = NoRun
                     /\ out' = Report(r, FALSE)
                ELSE /\ run' = NewBatch(r, 0)
                     /\ out' = [op |-> name, started |-> TRUE]
    /\ UNCHANGED <<prev, table, llava_result, gemma_result, score_difference,
                   hashseed, ensemble_results, row>>

\* a coroutine passes "async with semaphore"
Enter ==
    /\ run # NoRun
    /\ \E t \in 1..Len(run.pc) :
         /\ run.pc[t] = "created"
         /\ Sequential(run.name) => t = Len(run.results) + 1
         /\ can_acquire(run)
         /\ run' = [run EXCEPT !.pc[t] = "inside", !.value = @ - 1]
    /\ UNCHANGED <<out, prev, table, llava_result, gemma_result,
                   score_difference, hashseed, ensemble_results, row>>

\* a coroutine leaves the guarded section with an analysis or with an
\* error; process_batch appends its result, _analyze_with_semaphore counts
\* it (processed_count, and failed_count for error_count)
Leave ==
    /\ run # NoRun
    /\ \E t \in 1..Len(run.pc), failed \in BOOLEAN :
         /\ run.pc[t] = "inside"
         /\ run' =
              IF Sequential(run.name)
              THEN [run EXCEPT !.pc[t] = "done", !.value = @ + 1,
                               !.results =
                                   Append(@, [result_id |-> Batch(run)[t],
                                              error_message |-> failed])]
              ELSE [run EXCEPT !.pc[t] = "done", !.value = @ + 1,
                               !.processed_count = @ + 1,
                               !.failed_count =
                                   @ + IF failed THEN 1 ELSE 0]
    /\ UNCHANGED <<out, prev, table, llava_result, gemma_result,
                   score_difference, hashseed, ensemble_results, row>>

\* process_all_missing after process_batch: the save loop, the commit of
\* the batch, then the next batch or the summary; a commit that raises
\* ends the run in the outer except with a rollback
SaveBatch ==
    /\ run # NoRun
    /\ run.name = "process_all_missing"
    /\ Len(run.results) = Len(run.pc)
    /\ LET rows == new_rows(run.results)
           counted ==
               [run EXCEPT !.processed_count = @ + Len(rows),
                           !.failed_count =
                               @ + Len(run.results) - Len(rows)]
       IN  IF unique_violation(table \o rows)
           THEN /\ table' = table
                /\ run' = NoRun
                /\ out' = Report(counted, TRUE)
           ELSE /\ table' = Stored(table \o rows)
                /\ IF run.i + run.size >= Len(run.missing_data)
                   THEN /\ run' = NoRun
                        /\ out' = Report(counted, FALSE)
                   ELSE /\ run' = NewBatch(counted, run.i + run.size)
                        /\ out' = out
    /\ UNCHANGED <<prev, llava_result, gemma_result, score_difference,
                   hashseed, ensemble_results, row>>

\* process_batch returns its results
ReturnBatch ==
    /\ run # NoRun
    /\ run.name = "process_batch"
    /\ Len(run.results) = Len(run.pc)
    /\ out' = [op |-> "process_batch", res |-> run.results]
    /\ run' = NoRun
    /\ UNCHANGED <<prev, table, llava_result, gemma_result, score_difference,
                   hashseed, ensemble_results, row>>

\* asyncio.gather is over: the final statistics
FinishGather ==
    /\ run # NoRun
    /\ run.name = "process_pending_analysis"
    /\ \A t \in 1..Len(run.pc) : run.pc[t] = "done"
    /\ out' = Report(run, FALSE)
    /\ run' = NoRun
    /\ UNCHANGED <<prev, table, llava_result, gemma_result, score_difference,
                   hashseed, ensemble_results, row>>

NextParallel ==
    \/ StartParallel
    \/ Enter
    \/ Leave
    \/ SaveBatch
    \/ ReturnBatch
    \/ FinishGather

SpecParallel == InitParallel /\ [][NextParallel]_vars

-----------------------------------------------------------------------------
(* GemmaAnalyzer.analyze_image, then process_missing_gemma_analysis *)

InitParse ==
    /\ row \in ParseRows
    /\ gemma_result = EmptyDict
    /\ llava_result = EmptyDict
    /\ score_difference = 0
    /\ hashseed = 0
    /\ ensemble_results = <<>>
    /\ out = NoCall
    /\ prev = NoCall
    /\ table = <<>>
    /\ run = NoRun

\* analyzer.analyze_image(captured.file_path): the model answers and the
\* answer is parsed
AnalyzeImage ==
    /\ out = NoCall
    /\ \E response_text \in Responses :
          /\ gemma_result' = analyze_image(response_text)
          /\ out' = [op |-> "analyze_image", res |-> gemma_result']
    /\ prev' = out
    /\ UNCHANGED <<table, run, llava_result, score_difference, hashseed,
                   ensemble_results, row>>

NextParse ==
    \/ AnalyzeImage
    \/ ProcessMissingGemma

SpecParse == InitParse /\ [][NextParse]_vars

-----------------------------------------------------------------------------
(* calculate_priority_score and should_flag_for_review on their own *)

InitScore ==
    /\ \E i \in ScoreInputs :
          /\ llava_result = i[1]
          /\ ensemble_results = <<i[2], i[3]>>
    /\ gemma_result = EmptyDict
    /\ score_difference = 0
    /\ hashseed = 0
    /\ out = NoCall
    /\ prev = NoCall
    /\ table = <<>>
    /\ run = NoRun
    /\ row = NoRow

\* calculate_priority_score(ensemble_result, llava_result, gemma_result)
PriorityScore ==
    /\ \E i \in 1..2 :
          out' = [op |-> "priority", item |-> i,
                  res |-> calculate_priority_score(ensemble_results[i],
                                                   llava_result, gemma_result)]
    /\ prev' = out
    /\ Inputs_unchanged

\* should_flag_for_review(ensemble_result)
ShouldFlag ==
    /\ \E i \in 1..2 :
          out' = [op |-> "should_flag", item |-> i,
                  res |-> should_flag_for_review(ensemble_results[i])]
    /\ prev' = out
    /\ Inputs_unchanged

NextScore ==
    \/ PriorityScore
    \/ ShouldFlag

SpecScore == InitScore /\ [][NextScore]_vars

-----------------------------------------------------------------------------
(* Properties *)

\* the latest call was combine_analyses and it returned a result
Returned == out.op = "combine" /\ ~out.res.raised

\* the fixed vocabulary table of the normalizer
TableScore(l) ==
    CASE l \in {"low", "minimal"}      -> 1
      [] l \in {"medium", "moderate"}  -> 2
      [] l \in {"high", "severe"}      -> 3
      [] l \in {"critical", "extreme"} -> 4

Vocabulary ==
    {"low", "medium", "high", "critical",
     "minimal", "moderate", "severe", "extreme"}

\* rec carries a label of the vocabulary under key
HasLabel(rec, key) ==
    /\ key \in DOMAIN rec
    /\ rec[key].t = "str"
    /\ rec[key].v \in Vocabulary

\* C1: every label of the standard and of the alternate set is scored by the
\* fixed table (low=minimal=1 ... critical=extreme=4), for the llava record
\* and for the gemma record alike.
C1_TableScores ==
    Returned =>
        /\ HasLabel(llava_result, "concern_level") =>
               out.res.llava_score = TableScore(llava_result["concern_level"].v)
        /\ HasLabel(gemma_result, "concern_level") =>
               out.res.gemma_score = TableScore(gemma_result["concern_level"].v)
        /\ ( /\ \/ "concern_level" \notin DOMAIN gemma_result
                \/ gemma_result["concern_level"] \in {PyNone, PyStr("")}
             /\ HasLabel(gemma_result, "standard_concern_level") ) =>
               out.res.gemma_score =
                   TableScore(gemma_result["standard_concern_level"].v)

C1_Witness ==
    /\ Returned
    /\ HasLabel(llava_result, "concern_level")
    /\ llava_result["concern_level"].v = "critical"
    /\ HasLabel(gemma_result, "concern_level")
    /\ gemma_result["concern_level"].v = "severe"
    /\ out.res.llava_score = 4
    /\ out.res.gemma_score = 3

\* the label under key is absent, None, or a string outside both vocabularies
BadLabel(rec, key) == ~HasLabel(rec, key)

\* C2: a record whose concern label is absent, None or outside both
\* vocabularies is scored 1 and combine_analyses returns a result instead of
\* raising; for llava the key is concern_level, for gemma concern_level and
\* standard_concern_level.
C2_MissingLabelScoresOne ==
    out.op = "combine" =>
        /\ BadLabel(llava_result, "concern_level") =>
               ~out.res.raised /\ out.res.llava_score = 1
        /\ ( /\ BadLabel(gemma_result, "concern_level")
             /\ BadLabel(gemma_result, "standard_concern_level") ) =>
               ~out.res.raised /\ out.res.gemma_score = 1

\* C3: ensemble_concern_level follows the half-open thresholds on the average
\* of the two scores: >= 3.5 critical, >= 2.5 high, >= 1.5 medium, else low.
C3_Thresholds ==
    Returned =>
        LET sum == out.res.llava_score + out.res.gemma_score
        IN  out.res.ensemble_concern_level =
                CASE 2 * sum >= 14 -> "critical"
                  [] 2 * sum >= 10 /\ 2 * sum < 14 -> "high"
                  [] 2 * sum >= 6 /\ 2 * sum < 10  -> "medium"
                  [] 2 * sum < 6 -> "low"

C3_Witness ==
    /\ Returned
    /\ out.res.llava_score = 1
    /\ out.res.gemma_score = 4
    /\ out.res.ensemble_concern_level = "high"

\* C4: ensemble_confidence is 1.0 - 0.25 * |sA - sB|, plus 0.1 capped at 1.0
\* exactly when both scores are >= 3.
C4_Confidence ==
    Returned =>
        LET sA == out.res.llava_score
            sB == out.res.gemma_score
            diff == IF sA >= sB THEN sA - sB ELSE sB - sA
            base == CASE diff = 0 -> 100
                      [] diff = 1 -> 75
                      [] diff = 2 -> 50
                      [] diff = 3 -> 25
        IN  /\ (sA >= 3 /\ sB >= 3) =>
                   out.res.ensemble_confidence =
                       (IF base + 10 > 100 THEN 100 ELSE base + 10)
            /\ ~(sA >= 3 /\ sB >= 3) => out.res.ensemble_confidence = base

C4_Witness ==
    /\ Returned
    /\ out.res.llava_score = 3
    /\ out.res.gemma_score = 4
    /\ out.res.ensemble_confidence = 85

\* the agreement bucket of a difference given in hundredths
Bucket(d) ==
    CASE d = 0              -> "perfect"
      [] d > 0 /\ d <= 100  -> "high"
      [] d > 100 /\ d <= 200 -> "moderate"
      [] OTHER              -> "low"

\* C5: get_agreement_level is perfect at 0, high in (0, 1], moderate in
\* (1, 2] and low above, and combine_analyses reports the bucket of the
\* difference of its two scores.
C5_AgreementLevel ==
    /\ out.op = "agreement" => out.res = Bucket(score_difference)
    /\ Returned =>
           out.res.agreement_level =
               Bucket(100 * (IF out.res.llava_score >= out.res.gemma_score
                             THEN out.res.llava_score - out.res.gemma_score
                             ELSE out.res.gemma_score - out.res.llava_score))

C5_Witness ==
    /\ out.op = "agreement"
    /\ score_difference = 150
    /\ out.res = "moderate"
    /\ prev.op = "combine"
    /\ ~prev.res.raised
    /\ prev.res.agreement_level = "perfect"

\* C6: combine_analyses(A, B) and combine_analyses(B, A) return the same
\* ensemble_concern_level and the same ensemble_confidence.
C6_Commutative ==
    ( /\ {out.op, prev.op} = {"combine", "swapped"}
      /\ ~out.res.raised
      /\ ~prev.res.raised ) =>
        /\ out.res.ensemble_concern_level = prev.res.ensemble_concern_level
        /\ out.res.ensemble_confidence = prev.res.ensemble_confidence

\* C7: two calls of combine_analyses on identical inputs give identical
\* output in every field.
C7_Deterministic ==
    (out.op = "combine" /\ prev.op = "combine") => out.res = prev.res

\* the indicators of both records in pooling order: A's categories, then B's
PoolingOrder ==
    ListOrEmpty(llava_result, "concern_indicators")
    \o ListOrEmpty(llava_result, "restriction_indicators")
    \o ListOrEmpty(gemma_result, "exploitation_indicators")
    \o ListOrEmpty(gemma_result, "control_indicators")
    \o ListOrEmpty(gemma_result, "welfare_concerns")

\* C8: in combined_indicators no entry is, case-insensitively, a substring or
\* a superstring of another entry; "no helmets" with "no safety helmets worn"
\* keeps only the former, "fenced area" with "guards" keeps both.
C8_SubstringDedup ==
    Returned =>
        LET ci == out.res.combined_indicators
        IN  /\ \A i, j \in 1..Len(ci) : i < j => ~Similar(ci[j], ci[i])
            /\ PoolingOrder = <<NoHelmets, NoSafetyHelmetsWorn>> =>
                   ci = <<NoHelmets>>
            /\ PoolingOrder = <<FencedArea, Guards>> =>
                   Range(ci) = {FencedArea, Guards}

\* the entries of l are pairwise unrelated
Unrelated(l) == \A i, j \in 1..Len(l) : i # j => ~Similar(l[i], l[j])

\* C9: when the pooled indicators number at most 10 and are pairwise
\* unrelated, combined_indicators holds every one of them in pooling order.
C9_PoolingOrder ==
    (Returned /\ Len(PoolingOrder) <= 10 /\ Unrelated(PoolingOrder)) =>
        out.res.combined_indicators = PoolingOrder

\* C10: combine_analyses returns at most 10 combined_indicators and
\* EnsembleAnalyzer.combine_indicators at most 15.
C10_Caps ==
    /\ Returned => Len(out.res.combined_indicators) <= 10
    /\ out.op = "combine_indicators" => Len(out.res) <= 15

C10_Witness ==
    /\ out.op = "combine_indicators"
    /\ Len(record_llava_indicators(llava_result)) > 15
    /\ Len(out.res) = 15
    /\ prev.op = "combine"
    /\ ~prev.res.raised
    /\ Cardinality(pooled_indicators(llava_result, gemma_result)) > 10
    /\ Len(prev.res.combined_indicators) = 10

\* C11: combine_analyses, create_consensus_description included, returns a
\* result and never raises, whatever optional fields are absent or null
C11_NeverRaises ==
    out.op \in {"combine", "combine_swapped"} => ~out.res.raised

\* the ensemble result the latest call was about
Scored == ensemble_results[out.item]

\* the value of a field of the llava record, 0 when absent or null
Count(key) ==
    LET x == Get(llava_result, key, PyNone)
    IN  IF x.t = "int" THEN x.v ELSE 0

\* the number of combined indicators, 0 when absent or null
IndicatorCount(er) ==
    LET x == Get(er, "combined_indicators", PyNone)
    IN  IF x.t = "list" THEN Len(x.v) ELSE 0

\* the sum of the priority terms, in thousandths
PrioritySum(er) ==
    2000 * TableScore(er["ensemble_concern_level"].v)
    + 2 * er["ensemble_confidence"].v
    + Min(500 * IndicatorCount(er), 3000)
    + (IF Count("personnel_count") > 5 THEN 1000 ELSE 0)
    + (IF Count("personnel_count") > 10 THEN 1000 ELSE 0)
    + (IF Get(llava_result, "supervision_present", PyNone) = PyBool(TRUE)
       THEN 1000 ELSE 0)

PriorityReturned == out.op = "priority" /\ ~out.res.raised

\* C12 as stated: calculate_priority_score returns exactly the sum of its
\* terms, for all inputs
C12_ExactSum ==
    PriorityReturned => 10 * out.res.score = PrioritySum(Scored)

\* C12, amended: calculate_priority_score returns the sum of its terms
\* rounded to the nearest hundredth, which is the sum itself whenever the
\* confidence has at most two decimals; the test example gives 15.3
C12_RoundedSum ==
    PriorityReturned =>
        /\ 10 * out.res.score - PrioritySum(Scored) \in -4..4
        /\ Scored["ensemble_confidence"].v % 10 = 0
              => 10 * out.res.score = PrioritySum(Scored)
        /\ ( /\ Scored["ensemble_concern_level"] = PyStr("critical")
             /\ Scored["ensemble_confidence"] = PyFloat(900)
             /\ IndicatorCount(Scored) = 5
             /\ Count("personnel_count") = 15
             /\ Get(llava_result, "supervision_present", PyNone)
                   = PyBool(TRUE) )
              => out.res.score = 1530

\* the test example has been scored, and so has a confidence of three
\* decimals beside it
C12_Witness ==
    /\ PriorityReturned
    /\ out.res.score = 1530
    /\ prev.op = "priority"
    /\ ~prev.res.raised
    /\ ensemble_results[prev.item]["ensemble_confidence"] = PyFloat(333)
    /\ 10 * prev.res.score # PrioritySum(ensemble_results[prev.item])

\* C13: calculate_priority_score has no error outcome; an absent or null
\* personnel_count, supervision_present or combined_indicators contributes
\* 0 and a score is returned
C13_NoErrorOutcome ==
    out.op = "priority" => ~out.res.raised

\* the place of an ensemble result's level in low < medium < high < critical
LevelIndex(er) ==
    CHOOSE i \in 1..4 : EnsembleLevels[i] = er["ensemble_concern_level"].v

\* C14: with the llava record and the indicators fixed, an ensemble result
\* whose level and confidence are both at least those of another never
\* gets the lower priority score
C14_Monotone ==
    (PriorityReturned /\ prev.op = "priority" /\ ~prev.res.raised) =>
        LET a == ensemble_results[prev.item]
            b == Scored
        IN  ( /\ LevelIndex(a) <= LevelIndex(b)
              /\ a["ensemble_confidence"].v <= b["ensemble_confidence"].v )
              => prev.res.score <= out.res.score

\* two results with one confidence have been scored, the higher level
\* after the lower, and the score went up
C14_Witness ==
    /\ PriorityReturned
    /\ prev.op = "priority"
    /\ ~prev.res.raised
    /\ LevelIndex(ensemble_results[prev.item]) < LevelIndex(Scored)
    /\ ensemble_results[prev.item]["ensemble_confidence"]
         = Scored["ensemble_confidence"]
    /\ prev.res.score < out.res.score

\* the three rules of the review flag
HighConfidentConcern(er) ==
    /\ er["ensemble_concern_level"].v \in {"high", "critical"}
    /\ er["ensemble_confidence"].v >= 750

SeriousDisagreement(er) ==
    /\ er["agreement_level"].v = "low"
    /\ (er["llava_score"].v >= 3 \/ er["gemma_score"].v >= 3)

ManyIndicators(er) == IndicatorCount(er) >= 5

FlagReturned == out.op = "should_flag" /\ ~out.res.raised

\* C15: should_flag_for_review returns true exactly when the level is high
\* or critical with confidence >= 0.75, or the agreement is low with one
\* score >= 3, or there are at least 5 indicators; (high, 0.8) is flagged,
\* (low, 0.9, perfect, 1, 1, no indicators) is not, (medium, 0.5, low, 4, 1) is
C15_FlagRules ==
    FlagReturned =>
        /\ out.res.flag <=> \/ HighConfidentConcern(Scored)
                            \/ SeriousDisagreement(Scored)
                            \/ ManyIndicators(Scored)
        /\ ( /\ Scored["ensemble_concern_level"].v = "high"
             /\ Scored["ensemble_confidence"].v = 800 ) => out.res.flag
        /\ Scored = Merge(Ensemble("low", 900, "perfect", 1, 1),
                          With(EmptyDict, "combined_indicators", PyList(<<>>)))
              => ~out.res.flag
        /\ ( /\ Scored["ensemble_concern_level"].v = "medium"
             /\ Scored["ensemble_confidence"].v = 500
             /\ Scored["agreement_level"].v = "low"
             /\ Scored["llava_score"].v = 4
             /\ Scored["gemma_score"].v = 1 ) => out.res.flag

\* a medium result of confidence 0.5 without indicators has been flagged
\* for its low agreement with scores 4 and 1
C15_Witness ==
    /\ FlagReturned
    /\ out.res.flag
    /\ Scored = Merge(Ensemble("medium", 500, "low", 4, 1),
                      With(EmptyDict, "combined_indicators", PyList(<<>>)))

\* the three indicators of the end-to-end scenario
ScenarioIndicators == {NoSafetyGear, WorkingAtHeight, OvercrowdedConditions}

EndToEnd ==
    /\ llava_result \in LlavaScenarioRecords
    /\ gemma_result \in GemmaScenarioRecords

\* C16: with A 'high' and two concern indicators and B carrying only
\* standard_concern_level 'severe' and one exploitation indicator,
\* combine_analyses gives scores 3 and 3, level high, confidence 1.0,
\* agreement perfect and all three indicators, and the result is flagged
C16_EndToEnd ==
    EndToEnd =>
        /\ out.op = "combine" =>
              /\ ~out.res.raised
              /\ out.res.llava_score = 3
              /\ out.res.gemma_score = 3
              /\ out.res.ensemble_concern_level = "high"
              /\ out.res.ensemble_confidence = 100
              /\ out.res.agreement_level = "perfect"
              /\ ScenarioIndicators \subseteq Range(out.res.combined_indicators)
        /\ out.op = "flag" => out.res = [raised |-> FALSE, flag |-> TRUE]

\* the scenario has been combined and its result flagged
C16_Witness ==
    /\ EndToEnd
    /\ out.op = "flag"
    /\ out.res.flag
    /\ prev.op = "combine"
    /\ ScenarioIndicators \subseteq Range(prev.res.combined_indicators)

\* the gemma record's label is critical or extreme
GemmaSaysFour ==
    LET c == Get(gemma_result, "concern_level", PyNone)
        st == Get(gemma_result, "standard_concern_level", PyNone)
        Four == {PyStr("critical"), PyStr("extreme")}
    IN  c \in Four \/ (~Truthy(c) /\ st \in Four)

MissingData == "concern_level" \notin DOMAIN llava_result /\ GemmaSaysFour

\* C17: when A's record has no concern_level key and B scores 4,
\* combine_analyses gives llava_score 1, level high, confidence 0.25 and
\* agreement low, and the result is flagged by the disagreement rule and by
\* no other
C17_MissingData ==
    MissingData =>
        /\ Returned =>
              /\ out.res.llava_score = 1
              /\ out.res.gemma_score = 4
              /\ out.res.ensemble_concern_level = "high"
              /\ out.res.ensemble_confidence = 25
              /\ out.res.agreement_level = "low"
        /\ out.op = "flag" =>
              /\ out.res = [raised |-> FALSE, flag |-> TRUE]
              /\ SeriousDisagreement(ResultDict(prev.res))
              /\ ~HighConfidentConcern(ResultDict(prev.res))
              /\ ~ManyIndicators(ResultDict(prev.res))

\* a record without label has been combined with an 'extreme' one that has
\* no concern_level either, and the result flagged
C17_Witness ==
    /\ MissingData
    /\ "concern_level" \notin DOMAIN gemma_result
    /\ out.op = "flag"
    /\ out.res.flag
    /\ prev.op = "combine"
    /\ prev.res.ensemble_confidence = 25

\* rec has no indicators under any of keys
NoIndicators(rec, keys) ==
    \A k \in keys : ~Truthy(Get(rec, k, PyNone))

\* C18: every result of combine_analyses has a level among low, medium,
\* high, critical, a confidence in [0,1], an agreement level among perfect,
\* high, moderate, low, scores in 1..4, and a list of combined indicators
\* that is empty when neither record has indicators
C18_WellFormed ==
    (out.op \in {"combine", "combine_swapped"} /\ ~out.res.raised) =>
        /\ out.res.ensemble_concern_level
             \in {"low", "medium", "high", "critical"}
        /\ out.res.ensemble_confidence \in 0..100
        /\ out.res.agreement_level \in {"perfect", "high", "moderate", "low"}
        /\ out.res.llava_score \in 1..4
        /\ out.res.gemma_score \in 1..4
        /\ DOMAIN out.res.combined_indicators
             = 1..Len(out.res.combined_indicators)
        /\ (\A rec \in {llava_result, gemma_result} :
                NoIndicators(rec, {"concern_indicators",
                                   "restriction_indicators",
                                   "exploitation_indicators",
                                   "control_indicators", "welfare_concerns"}))
              => out.res.combined_indicators = <<>>

\* two records without labels and without indicators have been combined
\* into a low result with an empty list
C18_Witness ==
    /\ Returned
    /\ llava_result = EmptyDict
    /\ gemma_result = EmptyDict
    /\ out.res.llava_score = 1
    /\ out.res.combined_indicators = <<>>

\* the raw labels the narrative names
RawLlava ==
    LET x == Get(llava_result, "concern_level", PyStr("unknown"))
    IN  IF x = PyNone THEN "None" ELSE x.v

RawGemma ==
    LET c == Get(gemma_result, "concern_level", PyNone)
        x == IF Truthy(c) THEN c
             ELSE Get(gemma_result, "standard_concern_level", PyStr("unknown"))
    IN  IF x = PyNone THEN "None" ELSE x.v

\* the scene text of a record, empty when absent or null
Scene(rec) ==
    LET x == Get(rec, "scene_description", PyNone)
    IN  IF x.t = "text" THEN x.v ELSE <<>>

\* the parts of the narrative after the agreement statement, in order
PartKinds ==
    <<"Visual analysis:", "Humanitarian perspective:", "Personnel count:",
      "Supervision/control present">>

\* the i-th of these parts is due
PartDue(i) ==
    CASE i = 1 -> Scene(llava_result) # <<>>
      [] i = 2 -> Scene(gemma_result) # <<>>
      [] i = 3 -> Count("personnel_count") > 0
      [] i = 4 -> Get(llava_result, "supervision_present", PyNone)
                    = PyBool(TRUE)

\* C19: the narrative is the agreement statement with both raw labels,
\* then the first 200 characters of A's scene text if present, then those
\* of B's, then the personnel count iff it is > 0, then the supervision
\* phrase iff supervision_present is true, in this order
C19_NarrativeOrder ==
    Returned =>
        LET d == out.res.consensus_description
            due == SelectSeq(<<1, 2, 3, 4>>, PartDue)
        IN  /\ Len(d) = 1 + Len(due)
            /\ d[1].kind = IF RawLlava = RawGemma
                           THEN "Both models agree on" ELSE "Models show"
            /\ d[1].a = RawLlava
            /\ d[1].b = RawGemma
            /\ \A j \in 1..Len(due) :
                  /\ d[j + 1].kind = PartKinds[due[j]]
                  /\ due[j] = 1 =>
                        /\ Len(d[j + 1].text) <= 200
                        /\ d[j + 1].text
                             = SubSeq(Scene(llava_result), 1, Len(d[j + 1].text))
                        /\ Len(d[j + 1].text) = 200
                             \/ d[j + 1].text = Scene(llava_result)
                  /\ due[j] = 2 =>
                        /\ Len(d[j + 1].text) <= 200
                        /\ d[j + 1].text
                             = SubSeq(Scene(gemma_result), 1, Len(d[j + 1].text))
                        /\ Len(d[j + 1].text) = 200
                             \/ d[j + 1].text = Scene(gemma_result)
                  /\ due[j] = 3 => d[j + 1].n = Count("personnel_count")

\* a narrative of all five parts has been built from two scene texts of
\* more than 200 characters
C19_Witness ==
    /\ Returned
    /\ Len(out.res.consensus_description) = 5
    /\ Len(Scene(llava_result)) > 200
    /\ Len(Scene(gemma_result)) > 200
    /\ Len(out.res.consensus_description[2].text) = 200
    /\ out.res.consensus_description[4].n = 6

\* C20: after process_missing_gemma_analysis has committed the ensemble
\* level and confidence of a row, process_ensemble_analysis with
\* force_update writes the same level and the same confidence
C20_RecomputeIdentical ==
    ( /\ out.op = "process_ensemble_analysis"
      /\ out.res.updated
      /\ prev.op = "process_missing_gemma"
      /\ prev.res.committed ) =>
        /\ out.res.ensemble_concern_level = prev.res.ensemble_concern_level
        /\ out.res.ensemble_confidence = prev.res.ensemble_confidence

\* the score a stored label has in the table low=1 ... critical=4, 1 when
\* the label is not in it
StoredScore(label) ==
    IF label.t = "str" /\ label.v \in {"low", "medium", "high", "critical"}
    THEN TableScore(label.v) ELSE 1

\* C23: combine_concern_levels adds 0.1 to the confidence only when both
\* scores are >= 3; for every other pair the confidence is the table value
\* 1.0, 0.75, 0.5, 0.25 of the score difference
C23_BoostBothHigh ==
    (out.op = "process_ensemble_analysis" /\ out.res.updated) =>
        LET ls == StoredScore(row["concern_level"])
            gs == StoredScore(row["gemma_concern_level"])
            base == 100 - 25 * Abs(ls - gs)
        IN  out.res.ensemble_confidence
              = IF ls >= 3 /\ gs >= 3 THEN Min(100, base + 10) ELSE base

\* C24: in the list combine_indicators returns no entry is, regardless of
\* case, a substring or a superstring of an entry before it, the first
\* model's own indicators included
C24_NoSimilarEntries ==
    out.op = "combine_indicators" =>
        \A j \in 1..Len(out.res) :
            \A i \in 1..(j - 1) : ~Similar(out.res[j], out.res[i])

\* C29: whenever combine_analyses yields the level high or critical,
\* should_flag_for_review of that result is true
C29_ConcerningIsFlagged ==
    ( /\ out.op = "flag"
      /\ prev.op = "combine"
      /\ prev.res.ensemble_concern_level \in {"high", "critical"} ) =>
        out.res = [raised |-> FALSE, flag |-> TRUE]

\* C30: the narrative begins with 'Both models agree on' exactly when the
\* two scores are equal, that is when agreement_level is 'perfect'
C30_AgreementStatement ==
    Returned =>
        (out.res.consensus_description[1].kind = "Both models agree on"
           <=> out.res.agreement_level = "perfect")

\* the score of a label in the table of the normalizer, 1 outside it
Normalized(label) ==
    IF label.t = "str" /\ label.v \in Vocabulary
    THEN TableScore(label.v) ELSE 1

\* C28: for every record the parser produces, concern_level and
\* standard_concern_level normalize to the same score, and the label
\* process_missing_gemma_analysis stores for gemma normalizes to the
\* gemma_score of the ensemble it stores
C28_SamePrecedenceScore ==
    /\ out.op = "analyze_image" =>
          /\ "concern_level" \in DOMAIN out.res
          /\ "standard_concern_level" \in DOMAIN out.res =>
                Normalized(out.res["concern_level"])
                  = Normalized(out.res["standard_concern_level"])
    /\ (out.op = "process_missing_gemma" /\ out.res.committed) =>
          Normalized(row["gemma_concern_level"]) = out.res.gemma_score

\* a response rated severe has been parsed and committed: 'high' is
\* stored for gemma and the ensemble scored 'severe' as 3
C28_Witness ==
    /\ out.op = "process_missing_gemma"
    /\ out.res.committed
    /\ prev.op = "analyze_image"
    /\ gemma_result["concern_level"] = PyStr("severe")
    /\ row["gemma_concern_level"] = PyStr("high")
    /\ out.res.gemma_score = 3

\* C26: for an item whose Gemma analysis returned nothing or an
\* error_message no ensemble field is ever written and the gemma fields stay
\* unset, so that the query for missing Gemma analyses selects it again
C26_EnsembleNeedsBoth ==
    (row # NoRow /\ (gemma_result = EmptyDict
                       \/ "error_message" \in DOMAIN gemma_result)) =>
        /\ \A k \in GemmaColumns \cup EnsembleColumns : row[k] = PyNone
        /\ out.op = "process_missing_gemma" => ~out.res.committed

\* an item whose analysis carries an error_message has failed in two runs
\* in a row
C26_Witness ==
    /\ "error_message" \in DOMAIN gemma_result
    /\ out.op = "process_missing_gemma"
    /\ out.res = [committed |-> FALSE, failed |-> "gemma"]
    /\ prev = out
    /\ row["gemma_description"] = PyNone
    /\ row["ensemble_concern_level"] = PyNone

\* the counters of a run account for every item visited so far
Accounted(r) == r.processed_count + r.failed_count + r.skipped = r.i

\* C22: in process_missing_gemma_analysis every turn, whatever its outcome,
\* moves on to the next selected item; a turn changes no row but its own
\* and a turn that commits nothing changes no row at all; the run ends
\* only after the last selected item, and then processed_count +
\* failed_count + skipped items equals the number of items selected
C22_RunNeverAborts ==
    [][ /\ (run # NoRun /\ run' # NoRun) =>
              /\ run'.i = run.i + 1
              /\ run'.missing_gemma = run.missing_gemma
              /\ Accounted(run')
              /\ \A j \in 1..Len(table) :
                    j # run.missing_gemma[run.i + 1] => table'[j] = table[j]
              /\ run'.processed_count = run.processed_count =>
                    table' = table
        /\ (run # NoRun /\ run' = NoRun) =>
              /\ run.i = Len(run.missing_gemma)
              /\ table' = table
              /\ out'.res.selected = Len(run.missing_gemma)
              /\ out'.res.processed_count + out'.res.failed_count
                    + out'.res.skipped = out'.res.selected
      ]_vars

\* a run over three items ended in which one item was committed, one
\* failed and one had no image file
C22_Witness ==
    /\ out.op = "process_missing_gemma_analysis"
    /\ "res" \in DOMAIN out
    /\ out.res = [selected |-> 3, processed_count |-> 1, failed_count |-> 1,
                  skipped |-> 1]
    /\ \E j \in 1..Len(table) :
          table[j].analysis["ensemble_concern_level"] # PyNone

\* the step is a run of apply_ensemble_analysis
ApplyStep == run = NoRun /\ out'.op = "apply_ensemble_analysis"

\* process_ensemble_analysis ran and no limit cut its records
RanUnlimited(call) ==
    /\ call.op = "apply_ensemble_analysis"
    /\ call.called
    /\ ~Truthy(call.limit)

\* C25: process_ensemble_analysis without force_update changes only rows
\* that hold both labels and no ensemble level, and only their ensemble
\* columns; after a run with no limit every row with both labels holds an
\* ensemble level; a run without force_update that follows such a run at
\* once selects no record and changes no row
C25_IdempotentUpsert ==
    [][ ApplyStep =>
          /\ ~out'.force_update =>
                \A j \in 1..Len(table) :
                   table'[j] # table[j] =>
                      /\ has_both(table[j].analysis)
                      /\ table[j].analysis["ensemble_concern_level"] = PyNone
                      /\ table'[j].file_path = table[j].file_path
                      /\ \A k \in LlavaColumns \cup GemmaColumns :
                            table'[j].analysis[k] = table[j].analysis[k]
          /\ RanUnlimited(out') =>
                \A j \in 1..Len(table) :
                   has_both(table'[j].analysis) =>
                      table'[j].analysis["ensemble_concern_level"] # PyNone
          /\ (RanUnlimited(out) /\ ~out'.force_update) =>
                /\ out'.total_records = 0
                /\ table' = table
      ]_vars

\* a run without force_update and without limit has written two rows and
\* left a row without both labels alone, and the script can be run again
C25_Witness ==
    /\ RanUnlimited(out)
    /\ ~out.force_update
    /\ out.total_records = 2
    /\ \E j \in 1..Len(table) :
          /\ ~has_both(table[j].analysis)
          /\ table[j].analysis["ensemble_concern_level"] = PyNone
    /\ ENABLED ApplyEnsembleAnalysis

\* the number of coroutines inside the semaphore-guarded section
Inside(r) == Cardinality({t \in 1..Len(r.pc) : r.pc[t] = "inside"})

\* C21: in every parallel driver, at every moment, at most max_concurrent
\* analyses are inside the semaphore-guarded section, and the permits
\* left and the analyses inside add up to max_concurrent
C21_SemaphoreBound ==
    run # NoRun =>
        /\ Inside(run) <= run.max_concurrent
        /\ run.value >= 0
        /\ run.value + Inside(run) = run.max_concurrent

\* under asyncio.gather max_concurrent analyses are inside the section
\* and a further coroutine is kept out
C21_Witness ==
    /\ run # NoRun
    /\ ~Sequential(run.name)
    /\ run.max_concurrent = 2
    /\ Inside(run) = run.max_concurrent
    /\ \E t \in 1..Len(run.pc) : run.pc[t] = "created"
    /\ ~ENABLED Enter

\* C27: process_batch hands back one result per item of the batch, in the
\* order of the batch; the step that saves a batch creates a row for
\* exactly the results without error_message; when the run is over,
\* processed_count + failed_count is the number of items selected
C27_RowPerAnalysis ==
    [][ (/\ run # NoRun
         /\ run.name = "process_all_missing"
         /\ Len(run.results) = Len(run.pc)) =>
           /\ Len(run.results) = Len(Batch(run))
           /\ \A k \in 1..Len(run.results) :
                 run.results[k].result_id = Batch(run)[k]
           /\ Len(table') = Len(table) + Len(new_rows(run.results))
           /\ Range(table') = Range(table) \cup Range(new_rows(run.results))
           /\ run' = NoRun =>
                 out'.res.processed_count + out'.res.failed_count
                    = out'.res.selected
      ]_vars

=============================================================================
